---- MODULE Spec2Model ----
(***************************************************************************)
(* Discovery stage of the LeadGen-Audit pipeline (src/scripts/discover.py): *)
(* the two search providers with their quota, rate-limiter and backoff     *)
(* state, the orchestrator loop of main(), and the domain normalisation /  *)
(* validation helpers; and the pipeline state machine with its persisted   *)
(* state (src/state_machine.py).                                            *)
(*                                                                          *)
(* Strings are sequences of one-character strings; times are integers in   *)
(* milliseconds.                                                            *)
(***************************************************************************)
EXTENDS Integers, Sequences, FiniteSets, TLC

(***************************************************************************)
(* Characters and strings                                                   *)
(***************************************************************************)

\* The characters used, in code-point order (Python compares str by code point).
CharOrder ==
  << "\n", " ", "-", ".", "/", "0", "1", "2", "3", "4", "5", "6", "7", "8", "9",
     ":", "A", "B", "C", "H", "L", "M", "O", "P", "S", "T", "W", "a", "b", "c",
     "h", "i", "l", "m", "o", "p", "s", "t", "w" >>

Ord(c) == CHOOSE i \in 1..Len(CharOrder) : CharOrder[i] = c

Digits == {"0", "1", "2", "3", "4", "5", "6", "7", "8", "9"}
LowerLetters == {"a", "b", "c", "h", "i", "l", "m", "o", "p", "s", "t", "w"}
Whitespace == {"\n", " "}

\* str.lower() on one character
LowerChar(c) ==
  CASE c = "A" -> "a"
    [] c = "B" -> "b"
    [] c = "C" -> "c"
    [] c = "H" -> "h"
    [] c = "L" -> "l"
    [] c = "M" -> "m"
    [] c = "O" -> "o"
    [] c = "P" -> "p"
    [] c = "S" -> "s"
    [] c = "T" -> "t"
    [] c = "W" -> "w"
    [] OTHER -> c

Lower(s) == [i \in 1..Len(s) |-> LowerChar(s[i])]

Min(a, b) == IF a <= b THEN a ELSE b
Max(a, b) == IF a >= b THEN a ELSE b

\* s[n:] and s[:n] of Python (0-based n)
Drop(s, n) == SubSeq(s, n + 1, Len(s))
Take(s, n) == SubSeq(s, 1, Min(Max(n, 0), Len(s)))

StartsWith(s, pre) == Len(s) >= Len(pre) /\ SubSeq(s, 1, Len(pre)) = pre

\* 1-based position of the first occurrence of sep in s, 0 when there is none
Find(s, sep) ==
  LET hits == {i \in 1..(Len(s) - Len(sep) + 1) : SubSeq(s, i, i + Len(sep) - 1) = sep}
  IN IF hits = {} THEN 0 ELSE CHOOSE i \in hits : \A j \in hits : i <= j

\* s.split(sep, 1)[-1]: what follows the first sep, or all of s
SplitLast(s, sep) ==
  LET i == Find(s, sep) IN IF i = 0 THEN s ELSE Drop(s, i - 1 + Len(sep))

\* s.split(sep, 1)[0]: what precedes the first sep, or all of s
SplitFirst(s, sep) ==
  LET i == Find(s, sep) IN IF i = 0 THEN s ELSE SubSeq(s, 1, i - 1)

\* s.strip()
Strip(s) ==
  LET keep == {i \in 1..Len(s) : s[i] \notin Whitespace}
  IN IF keep = {} THEN << >>
     ELSE SubSeq(s, CHOOSE i \in keep : \A j \in keep : i <= j,
                    CHOOSE i \in keep : \A j \in keep : i >= j)

\* a < b for Python str
LexLess(a, b) ==
  \E k \in 1..(Len(a) + 1) :
    /\ k <= Len(b)
    /\ \A j \in 1..(k - 1) : a[j] = b[j]
    /\ \/ k = Len(a) + 1
       \/ k <= Len(a) /\ Ord(a[k]) < Ord(b[k])

RECURSIVE SortedSeq(_)
\* sorted(S) for a set of strings
SortedSeq(S) ==
  IF S = {} THEN << >>
  ELSE LET m == CHOOSE x \in S : \A y \in S \ {x} : LexLess(x, y)
       IN << m >> \o SortedSeq(S \ {m})

Range(s) == {s[i] : i \in 1..Len(s)}

(***************************************************************************)
(* Domain helpers                                                           *)
(***************************************************************************)

normalize_domain(raw) ==
  LET d0 == Strip(raw)
      d1 == SplitLast(d0, << "/", "/" >>)
      d2 == SplitFirst(d1, << "/" >>)
      d3 == SplitFirst(d2, << ":" >>)
      d4 == Lower(d3)
  IN IF StartsWith(d4, << "w", "w", "w", "." >>) THEN Drop(d4, 4) ELSE d4

MaxDomainLen == 253

BlockedHosts ==
  { << "l", "o", "c", "a", "l", "h", "o", "s", "t" >>,
    << "1", "2", "7", ".", "0", ".", "0", ".", "1" >>,
    << "0", ".", "0", ".", "0", ".", "0" >>,
    << ":", ":", "1" >> }

\* "$" of re.match also matches just before one final newline
DollarBody(s) ==
  IF Len(s) > 0 /\ s[Len(s)] = "\n" THEN {s, SubSeq(s, 1, Len(s) - 1)} ELSE {s}

\* labels of s split at "."
DotPositions(s) == {i \in 1..Len(s) : s[i] = "."}

\* ^\d{1,3}\.\d{1,3}\.\d{1,3}\.\d{1,3}$
IsDottedQuad(s) ==
  \E b \in DollarBody(s) :
    /\ Cardinality(DotPositions(b)) = 3
    /\ \A i \in 1..Len(b) : b[i] \in Digits \/ b[i] = "."
    /\ LET dots == DotPositions(b)
           cuts == dots \cup {0, Len(b) + 1}
       IN \A i \in cuts : i <= Len(b) =>
            LET nxt == CHOOSE j \in cuts : j > i /\ \A k \in cuts : k > i => j <= k
            IN nxt - i - 1 \in 1..3

\* ^[a-z0-9.-]+\.[a-z]{2,}$
HasValidTld(s) ==
  \E b \in DollarBody(s) :
    /\ DotPositions(b) # {}
    /\ LET last == CHOOSE i \in DotPositions(b) : \A j \in DotPositions(b) : i >= j
       IN /\ last >= 2
          /\ \A i \in 1..(last - 1) :
               b[i] \in LowerLetters \cup Digits \cup {".", "-"}
          /\ Len(b) - last >= 2
          /\ \A i \in (last + 1)..Len(b) : b[i] \in LowerLetters

is_valid_domain(domain) ==
  /\ domain # << >>
  /\ Len(domain) <= MaxDomainLen
  /\ domain \notin BlockedHosts
  /\ ~IsDottedQuad(domain)
  /\ HasValidTld(domain)

\* unique_sorted without the is_valid_domain filter
ValidDomains_NoFilter(domains) ==
  {normalize_domain(d) : d \in {x \in Range(domains) : normalize_domain(x) # << >>}}

\* the set unique_sorted sorts
ValidDomains(domains) ==
  LET normalized == {normalize_domain(d) : d \in {x \in Range(domains) : normalize_domain(x) # << >>}}
  IN {d \in normalized : is_valid_domain(d)}

unique_sorted(domains) == SortedSeq(ValidDomains(domains))

(***************************************************************************)
(* sanitize_error                                                           *)
(***************************************************************************)

\* [\w-] over the characters used in messages
WordChars ==
  LowerLetters \cup Digits
    \cup {"A", "B", "C", "H", "L", "M", "O", "P", "S", "T", "W"}
    \cup {"e", "k", "n", "q", "x", "y", "_", "-"}

\* end of the match of  word[=:]\s*[\w-]+  (re.I) that starts at position i
\* of s, 0 when there is none
MatchEnd(s, i, word) ==
  LET n == Len(word)
  IN IF i + n > Len(s) THEN 0
     ELSE IF Lower(SubSeq(s, i, i + n - 1)) # word THEN 0
     ELSE IF s[i + n] \notin {"=", ":"} THEN 0
     ELSE LET rest == {j \in (i + n + 1)..Len(s) : s[j] \notin Whitespace}
          IN IF rest = {} THEN 0
             ELSE LET j == CHOOSE x \in rest : \A y \in rest : x <= y
                      stop == {x \in j..Len(s) : s[x] \notin WordChars}
                  IN IF s[j] \notin WordChars THEN 0
                     ELSE IF stop = {} THEN Len(s)
                     ELSE (CHOOSE x \in stop : \A y \in stop : x <= y) - 1

\* the match at position i of a pattern whose name part is one of words
MatchEndAny(s, i, words) ==
  LET ends == {MatchEnd(s, i, w) : w \in words}
  IN CHOOSE e \in ends : \A f \in ends : e >= f

RECURSIVE SubFrom(_, _, _, _)
\* re.sub(pattern, repl, s, flags=re.I) from position i on
SubFrom(s, i, words, repl) ==
  LET starts == {j \in i..Len(s) : MatchEndAny(s, j, words) > 0}
  IN IF starts = {} THEN SubSeq(s, i, Len(s))
     ELSE LET j == CHOOSE x \in starts : \A y \in starts : x <= y
          IN SubSeq(s, i, j - 1) \o repl
               \o SubFrom(s, MatchEndAny(s, j, words) + 1, words, repl)

Stars == << "*", "*", "*" >>

sanitize_error(msg) ==
  LET m1 == SubFrom(msg, 1, { << "k", "e", "y" >> }, << "k", "e", "y", "=" >> \o Stars)
      m2 == SubFrom(m1, 1, { << "t", "o", "k", "e", "n" >> },
                    << "t", "o", "k", "e", "n", "=" >> \o Stars)
      m3 == SubFrom(m2, 1, { << "c", "x" >> }, << "c", "x", "=" >> \o Stars)
  IN SubFrom(m3, 1,
             { << "a", "p", "i", "k", "e", "y" >>,
               << "a", "p", "i", "_", "k", "e", "y" >>,
               << "a", "p", "i", "-", "k", "e", "y" >> },
             << "a", "p", "i", "_", "k", "e", "y", "=" >> \o Stars)

\* "no value": None of Python
NoDelay == -1

RECURSIVE SplitLines(_)
\* s.splitlines()
SplitLines(s) ==
  IF s = << >> THEN << >>
  ELSE LET i == Find(s, << "\n" >>)
       IN IF i = 0 THEN << s >>
          ELSE << SubSeq(s, 1, i - 1) >> \o SplitLines(Drop(s, i))

\* the first position from i on that holds no whitespace
SkipWs(s, i) ==
  CHOOSE j \in i..(Len(s) + 1) :
    /\ j = Len(s) + 1 \/ s[j] \notin Whitespace
    /\ \A k \in i..(j - 1) : s[k] \in Whitespace

\* crawl-?delay, lower case
CrawlDelayWords ==
  { << "c", "r", "a", "w", "l", "-", "d", "e", "l", "a", "y" >>,
    << "c", "r", "a", "w", "l", "d", "e", "l", "a", "y" >> }

\* where a match of (?i)\s*crawl-?delay\s*:\s* that starts at position i ends
\* (the position after it), 0 when there is no match at i
PrefixEnd(s, i) ==
  LET a == SkipWs(s, i)
      w == {x \in CrawlDelayWords :
              a + Len(x) - 1 <= Len(s) /\ Lower(SubSeq(s, a, a + Len(x) - 1)) = x}
  IN IF w = {} THEN 0
     ELSE LET b == SkipWs(s, a + Len(CHOOSE x \in w : TRUE))
          IN IF b > Len(s) \/ s[b] # ":" THEN 0 ELSE SkipWs(s, b + 1)

\* re.match(r"(?i)\s*crawl-?delay\s*:\s*[0-9.]+", line)
MatchesCrawlDelay(line) ==
  LET e == PrefixEnd(line, 1)
  IN e # 0 /\ e <= Len(line) /\ line[e] \in Digits \cup {"."}

RECURSIVE RemovePrefixes(_)
\* re.sub(r"(?i)\s*crawl-?delay\s*:\s*", "", line): every match is removed
RemovePrefixes(s) ==
  IF s = << >> THEN << >>
  ELSE LET e == PrefixEnd(s, 1)
       IN IF e # 0 THEN RemovePrefixes(Drop(s, e - 1))
          ELSE << Head(s) >> \o RemovePrefixes(Tail(s))

\* float(s) succeeds; the texts modelled hold digits and dots in a number,
\* no sign, exponent or underscore
IsDecimal(s) ==
  /\ \A i \in 1..Len(s) : s[i] \in Digits \cup {"."}
  /\ Cardinality(DotPositions(s)) <= 1
  /\ \E i \in 1..Len(s) : s[i] \in Digits

RECURSIVE IntOf(_)
IntOf(s) ==
  IF s = << >> THEN 0
  ELSE IntOf(SubSeq(s, 1, Len(s) - 1)) * 10 + (Ord(s[Len(s)]) - Ord("0"))

\* float(s) in milliseconds (what lies below a millisecond is dropped)
Millis(s) ==
  LET d == IF DotPositions(s) = {} THEN Len(s) + 1 ELSE CHOOSE i \in DotPositions(s) : TRUE
      frac == Take(SubSeq(s, d + 1, Len(s)) \o << "0", "0", "0" >>, 3)
  IN IntOf(SubSeq(s, 1, d - 1)) * 1000 + IntOf(frac)

\* the first line that matches decides; a float() that raises gives None
parse_crawl_delay(robots_txt) ==
  LET lines == SplitLines(robots_txt)
      hits == {i \in 1..Len(lines) : MatchesCrawlDelay(lines[i])}
  IN IF hits = {} THEN NoDelay
     ELSE LET line == lines[CHOOSE i \in hits : \A j \in hits : i <= j]
              num == Strip(RemovePrefixes(line))
          IN IF IsDecimal(num) THEN Millis(num) ELSE NoDelay

\* fetch_robots_and_delay with the lookup failing closed
fetch_robots_and_delay_FailClosed(r) ==
  IF r.kind # "http" \/ r.code # 200 THEN << FALSE, NoDelay >>
  ELSE << TRUE, parse_crawl_delay(r.text) >>

\* (allowed, crawl_delay) for the answer r of the GET of robots.txt
fetch_robots_and_delay(r) ==
  IF r.kind # "http" THEN << TRUE, NoDelay >>
  ELSE IF r.code # 200 THEN << TRUE, NoDelay >>
  ELSE << TRUE, parse_crawl_delay(r.text) >>

RECURSIVE DelaysFrom_NoCap(_, _, _)
\* the doubling without the ceiling
DelaysFrom_NoCap(cur, max_s, n) ==
  IF n <= 0 THEN << >>
  ELSE << cur >> \o DelaysFrom_NoCap(cur * 2, max_s, n - 1)

RECURSIVE DelaysFrom(_, _, _)
DelaysFrom(cur, max_s, n) ==
  IF n <= 0 THEN << >>
  ELSE << cur >> \o DelaysFrom(Min(max_s, cur * 2), max_s, n - 1)

\* backoff_delays with one delay per allowed attempt
backoff_delays_OnePerAttempt(base, max_s, attempts) ==
  DelaysFrom(base, max_s, Max(0, attempts))

backoff_delays(base, max_s, attempts) == DelaysFrom(base, max_s, Max(0, attempts - 1))

(***************************************************************************)
(* Inputs                                                                   *)
(***************************************************************************)

GOOGLE == "google_cse"
DDG == "duckduckgo"
ProviderNames == {GOOGLE, DDG}

\* "http://A.com/b"
UrlA == << "h", "t", "t", "p", ":", "/", "/", "A", ".", "c", "o", "m", "/", "b" >>
\* "https://www.a.com"
UrlWwwA ==
  << "h", "t", "t", "p", "s", ":", "/", "/", "w", "w", "w", ".", "a", ".", "c", "o", "m" >>
\* "http://localhost:80/"
UrlLocalhost ==
  << "h", "t", "t", "p", ":", "/", "/", "l", "o", "c", "a", "l", "h", "o", "s", "t",
     ":", "8", "0", "/" >>
\* "10.0.0.1"
UrlIp == << "1", "0", ".", "0", ".", "0", ".", "1" >>
\* "b.io"
UrlB == << "b", ".", "i", "o" >>
\* an item without a link
NoLink == << >>

\* args.max_results
MaxResultsChoices == {0, 1, 3}

\* the item lists a backend answers with
ItemLists ==
  { << >>,
    << UrlB >>,
    << UrlA, UrlWwwA >>,
    << UrlLocalhost, NoLink, UrlIp, UrlA >> }

\* what a page request of the Google API ends with
GoogleOutcomes ==
  {[kind |-> "http", code |-> 200, items |-> il] : il \in ItemLists}
    \cup {[kind |-> "http", code |-> c, items |-> << >>] : c \in {429, 503, 403}}
    \cup {[kind |-> k, code |-> 0, items |-> << >>] :
            k \in {"timeout", "connection_error", "exception"}}

\* what one pass over ddgs.text() ends with: all items yielded, or an
\* exception after some items were yielded
DdgOutcomes ==
  {[kind |-> "ok", code |-> 0, items |-> il] : il \in ItemLists}
    \cup {[kind |-> k, code |-> 0, items |-> il] :
            k \in {"timeout", "exception"}, il \in {<< >>, << UrlB >>}}

NoResponse == [kind |-> "none", code |-> 0, items |-> << >>]

\* "Crawl-delay: 1"
RobotsOneSecond ==
  << "C", "r", "a", "w", "l", "-", "d", "e", "l", "a", "y", ":", " ", "1" >>
\* "a:b" / "crawldelay :0" (second line, no hyphen, zero)
RobotsZero ==
  << "a", ":", "b", "\n", "c", "r", "a", "w", "l", "d", "e", "l", "a", "y", " ", ":", "0" >>
\* "Crawl-delay: 1 s" (float() raises) / "Crawl-delay: 1"
RobotsUnparsable ==
  << "C", "r", "a", "w", "l", "-", "d", "e", "l", "a", "y", ":", " ", "1", " ", "s", "\n",
     "C", "r", "a", "w", "l", "-", "d", "e", "l", "a", "y", ":", " ", "1" >>
\* "a:b" (no Crawl-delay line)
RobotsPlain == << "a", ":", "b" >>
RobotsTexts == { << >>, RobotsPlain, RobotsOneSecond, RobotsZero, RobotsUnparsable }

\* what the GET of robots.txt ends with
RobotsOutcomes ==
  {[kind |-> "http", code |-> 200, text |-> t] : t \in RobotsTexts}
    \cup {[kind |-> "http", code |-> c, text |-> << >>] : c \in {404, 503}}
    \cup {[kind |-> k, code |-> 0, text |-> << >>] : k \in {"timeout", "exception"}}

\* the config file: whether it exists, whether it is YAML, its "keywords"
ConfigFiles ==
  [exists : BOOLEAN, yaml : BOOLEAN,
   keywords : {"absent", "null", "scalar", "empty_list", "list"}]

\* "ok" when the config is returned, else the exception raised
load_config(f) ==
  IF ~f.exists THEN "FileNotFoundError"
  ELSE IF ~f.yaml THEN "YAMLError"
  ELSE IF f.keywords \in {"absent", "null", "scalar", "empty_list"} THEN "ValueError"
  ELSE "ok"

\* the output directory: how mkdir ends, how touch/unlink of the test file end
OutputDirs ==
  [mkdir : {"ok", "PermissionError", "FileExistsError"},
   touch : {"ok", "PermissionError", "OSError"}]

\* "ok" when ensure_writable returns, else the exception it raises: mkdir is
\* outside the try, every exception of touch/unlink becomes PermissionError
ensure_writable(d) ==
  IF d.mkdir # "ok" THEN d.mkdir
  ELSE IF d.touch # "ok" THEN "PermissionError"
  ELSE "ok"

\* --provider
ProviderArgs == {"google", "duckduckgo", "all"}

\* exit statuses: sys.exit(n), return from main, uncaught exception
Running == -1
ExitSuccess == 0
ExitUncaught == 1
ExitConfig == 2
ExitNoProviders == 3
ExitNotWritable == 4

\* bounds of the explored configurations
NumKeywords == 2
MaxRetry == 2
MaxCalls == 2
\* attempt numbers above every retry budget are not told apart
MaxAttempt == MaxRetry + 1

\* daily_quota_threshold: none, one query, or the default of line 160
DefaultQuota == 1000000000
QuotaChoices == {0, 1, DefaultQuota}

ProviderSelections == {<< GOOGLE >>, << DDG >>, << GOOGLE, DDG >>}
CrawlDelayChoices == {NoDelay, 1000}

\* defaults of BaseProvider.__init__, in milliseconds
backoff_base_seconds == 500
backoff_max_seconds == 8000
per_page == 10
MaxStartIndex == 91

(***************************************************************************)
(* State                                                                    *)
(***************************************************************************)

VARIABLES
  providers,              \* main: the provider objects, in order
  daily_quota_threshold,  \* per provider
  retry_attempts,         \* per provider
  has_credentials,        \* GoogleCSEProvider: api_key and cx both set
  ddgs_available,         \* DDGS is not None
  ddg_crawl_delay,        \* DuckDuckGoProvider.ddg_crawl_delay
  ddg_allowed,            \* DuckDuckGoProvider.ddg_allowed
  robots_fetches,         \* GET requests for robots.txt sent so far
  cred_warnings,          \* missing-credential warnings logged so far
  dry_run,                \* args.dry_run
  config,                 \* how load_config ended
  out_check,              \* how ensure_writable ended
  max_results,            \* args.max_results
  pc,                     \* position of the control sequence
  kw,                     \* main: index of the current keyword
  pidx,                   \* main: index of the current provider
  queries_made,           \* per provider
  provider_usage,         \* main
  all_domains,            \* main
  output,                 \* lines of the output file
  exit_code,              \* exit status of the process
  results,                \* query: local list
  start_index,            \* GoogleCSEProvider.query: local
  attempt,                \* query: local
  resp,                   \* outcome of the request in flight
  res,                    \* value returned by the last query call
  ev,                     \* waits and sleeps since the last request attempt
  failed,                 \* a request of this query ended in an error
  calls,                  \* direct calls of query made by a client
  helper_call,            \* a helper function and the arguments it is applied to
  helper_ret,             \* the value the helper returned
  helper_done,            \* the helper has returned
  state,                  \* state_machine: the state dict of the running call
  state_file,             \* state_machine: state.json
  phase_pc,               \* state_machine: position of the control sequence
  entry_state,            \* the state dict as the running call received it
  preflights,             \* executions of run_preflight in the running call
  interrupts,             \* interruptions so far
  hit,                    \* position at which the last interruption struck
  runs                    \* calls of run_next_phase started so far

helpervars == << helper_call, helper_ret, helper_done >>
configvars == << providers, daily_quota_threshold, retry_attempts, has_credentials,
                 ddgs_available, ddg_crawl_delay, ddg_allowed, robots_fetches,
                 cred_warnings, dry_run, config, out_check, max_results >>
phasevars == << state, state_file, phase_pc, entry_state, preflights, interrupts, hit,
               runs >>
cfgvars == << configvars, helpervars, phasevars >>
mainvars == << kw, pidx, provider_usage, all_domains, output, exit_code >>
vars == << providers, daily_quota_threshold, retry_attempts, has_credentials,
           ddgs_available, ddg_crawl_delay, ddg_allowed, robots_fetches,
           cred_warnings, dry_run, config, out_check, max_results, pc, kw, pidx,
           queries_made, provider_usage, all_domains, output, exit_code, results,
           start_index, attempt, resp, res, ev, failed, calls, helpervars, phasevars >>

\* no helper is applied on its own
NoHelperCall ==
  /\ helper_call = [fn |-> "none"]
  /\ helper_ret = << >>
  /\ helper_done = FALSE

\* a key the state dict does not have
NoKey == -1
NoResult == "absent"

\* the state _load_state starts from
DefaultState == [current_phase |-> 1, status |-> "not_started", phase1 |-> NoResult]

\* state.json as a file: missing, unreadable as JSON, or holding a state
MissingFile == [kind |-> "missing", content |-> DefaultState]
CorruptFile == [kind |-> "corrupt", content |-> DefaultState]
JsonFile(st) == [kind |-> "json", content |-> st]

\* the state machine is not running and has never run
NoPipelineRun ==
  /\ state = DefaultState
  /\ state_file = MissingFile
  /\ phase_pc = "start"
  /\ entry_state = DefaultState
  /\ preflights = 0
  /\ interrupts = 0
  /\ hit = "none"
  /\ runs = 0

Enabled(p) == \E i \in 1..Len(providers) : providers[i] = p
Cur == providers[pidx]

Init ==
  /\ providers \in ProviderSelections
  /\ daily_quota_threshold \in [ProviderNames -> QuotaChoices]
  /\ \E r \in 0..MaxRetry : retry_attempts = [p \in ProviderNames |-> r]
  /\ \A p \in ProviderNames : ~Enabled(p) => daily_quota_threshold[p] = 0
  /\ has_credentials \in (IF Enabled(GOOGLE) THEN BOOLEAN ELSE {FALSE})
  /\ ddgs_available \in (IF Enabled(DDG) THEN BOOLEAN ELSE {FALSE})
  /\ ddg_crawl_delay \in (IF ddgs_available THEN CrawlDelayChoices ELSE {NoDelay})
  /\ ddg_allowed = Enabled(DDG)
  /\ robots_fetches = (IF Enabled(DDG) THEN 1 ELSE 0)
  /\ cred_warnings = (IF Enabled(GOOGLE) /\ ~has_credentials THEN 1 ELSE 0)
  /\ dry_run = FALSE
  /\ config = "ok"
  /\ out_check = "ok"
  /\ max_results \in MaxResultsChoices
  /\ pc = "loop"
  /\ kw = 1
  /\ pidx = 1
  /\ queries_made = [p \in ProviderNames |-> 0]
  /\ provider_usage = [p \in ProviderNames |-> [queries_made |-> 0, domains |-> 0]]
  /\ all_domains = {}
  /\ output = << >>
  /\ exit_code = Running
  /\ results = << >>
  /\ start_index = 1
  /\ attempt = 0
  /\ resp = NoResponse
  /\ res = << >>
  /\ ev = << >>
  /\ failed = FALSE
  /\ calls = 0
  /\ NoHelperCall
  /\ NoPipelineRun

(***************************************************************************)
(* Providers                                                                *)
(***************************************************************************)

\* can_continue with the comparison off by one
can_continue_OffByOne(p) == queries_made[p] <= daily_quota_threshold[p]

can_continue(p) == queries_made[p] < daily_quota_threshold[p]

_delays(p) == backoff_delays(backoff_base_seconds, backoff_max_seconds, retry_attempts[p])

\* HTTP 403 retried as well
RetryableStatus_With403 == {429, 503, 403}

RetryableStatus == {429, 503}
RetryableErrors == {"timeout", "connection_error"}

\* the links appended to results from the items of an answer
RECURSIVE Links(_)
Links(items) ==
  IF items = << >> THEN << >>
  ELSE (IF Head(items) = NoLink THEN << >> ELSE << Head(items) >>) \o Links(Tail(items))

NextAttempt(a) == IF a < MaxAttempt THEN a + 1 ELSE a

\* a return that forgets to count the query
Return_NoCount(p, r) ==
  /\ UNCHANGED queries_made
  /\ res' = Take(r, max_results)
  /\ pc' = "returned"
  /\ results' = << >>
  /\ start_index' = 1
  /\ attempt' = 0

\* a return that counts the query twice
Return_CountTwice(p, r) ==
  /\ queries_made' = [queries_made EXCEPT ![p] = @ + 2]
  /\ res' = Take(r, max_results)
  /\ pc' = "returned"
  /\ results' = << >>
  /\ start_index' = 1
  /\ attempt' = 0

\* a return of the whole list
Return_NoTruncate(p, r) ==
  /\ queries_made' = [queries_made EXCEPT ![p] = @ + 1]
  /\ res' = r
  /\ pc' = "returned"
  /\ results' = << >>
  /\ start_index' = 1
  /\ attempt' = 0

\* self.queries_made += 1; return r[:max_results] (the locals end with the call)
Return(p, r) ==
  /\ queries_made' = [queries_made EXCEPT ![p] = @ + 1]
  /\ res' = Take(r, max_results)
  /\ pc' = "returned"
  /\ results' = << >>
  /\ start_index' = 1
  /\ attempt' = 0

\* _respect_ddg_delay sleeping whenever a delay was parsed
_respect_ddg_delay_WhenPresent ==
  IF ddg_crawl_delay # NoDelay
  THEN << << "crawl", ddg_crawl_delay >> >>
  ELSE << >>

\* the sleep of _respect_ddg_delay, if any
_respect_ddg_delay ==
  IF ddg_crawl_delay # NoDelay /\ ddg_crawl_delay > 0
  THEN << << "crawl", ddg_crawl_delay >> >>
  ELSE << >>

\* query() of GoogleCSEProvider not testing the credentials
QueryEntry_NoCredentialTest(p) ==
  IF ~can_continue(p)
  THEN /\ res' = << >>
       /\ pc' = "returned"
       /\ UNCHANGED << queries_made, results, start_index, attempt, ev >>
  ELSE IF p = GOOGLE
  THEN /\ results' = << >>
       /\ start_index' = 1
       /\ pc' = "g_page"
       /\ res' = << >>
       /\ UNCHANGED << queries_made, attempt, ev >>
  ELSE IF ~ddgs_available
       THEN /\ Return(p, << >>)
            /\ UNCHANGED ev
       ELSE /\ ev' = << << "wait", 0 >> >> \o _respect_ddg_delay
            /\ results' = << >>
            /\ attempt' = 0
            /\ pc' = "d_try"
            /\ res' = << >>
            /\ UNCHANGED << queries_made, start_index >>

\* the parts of query() up to its first wait or return
QueryEntry(p) ==
  IF ~can_continue(p)
  THEN /\ res' = << >>
       /\ pc' = "returned"
       /\ UNCHANGED << queries_made, results, start_index, attempt, ev >>
  ELSE IF p = GOOGLE
  THEN IF ~has_credentials
       THEN /\ Return(p, << >>)
            /\ UNCHANGED ev
       ELSE /\ results' = << >>
            /\ start_index' = 1
            /\ pc' = "g_page"
            /\ res' = << >>
            /\ UNCHANGED << queries_made, attempt, ev >>
  ELSE IF ~ddgs_available
       THEN /\ Return(p, << >>)
            /\ UNCHANGED ev
       ELSE /\ ev' = << << "wait", 0 >> >> \o _respect_ddg_delay
            /\ results' = << >>
            /\ attempt' = 0
            /\ pc' = "d_try"
            /\ res' = << >>
            /\ UNCHANGED << queries_made, start_index >>

\* the page loop without the rate-limiter wait
GPage_NoWait ==
  /\ pc = "g_page"
  /\ IF Len(results) < max_results /\ start_index <= MaxStartIndex
     THEN /\ attempt' = 0
          /\ pc' = "g_try"
          /\ UNCHANGED << queries_made, res, results, start_index, ev >>
     ELSE /\ queries_made' = [queries_made EXCEPT ![GOOGLE] = @ + 1]
          /\ res' = Take(results, max_results)
          /\ pc' = "returned"
          /\ results' = << >>
          /\ start_index' = 1
          /\ attempt' = 0
          /\ UNCHANGED ev
  /\ UNCHANGED << cfgvars, mainvars, resp, failed, calls >>

\* GoogleCSEProvider.query: head of the page loop, with the rate-limiter
\* wait of the page it enters
GPage ==
  /\ pc = "g_page"
  /\ IF Len(results) < max_results /\ start_index <= MaxStartIndex
     THEN /\ ev' = Append(ev, << "wait", 0 >>)
          /\ attempt' = 0
          /\ pc' = "g_try"
          /\ UNCHANGED << queries_made, res, results, start_index >>
     ELSE /\ Return(GOOGLE, results)
          /\ UNCHANGED ev
  /\ UNCHANGED << cfgvars, mainvars, resp, failed, calls >>

\* GoogleCSEProvider.query: one requests.get of the retry loop is sent
GIssue ==
  /\ pc = "g_try"
  /\ attempt' = NextAttempt(attempt)
  /\ resp' \in GoogleOutcomes
  /\ ev' = << >>
  /\ pc' = "g_inflight"
  /\ UNCHANGED << cfgvars, mainvars, queries_made, results, start_index, res, failed,
                  calls >>

\* the "num" and "start" of the params of a page request, lines 209-216
params == [num |-> Min(per_page, max_results - Len(results)), start |-> start_index]

\* the next page starting one item further instead of one page further
GAfterPage_NextItem(r) ==
  IF Len(r) >= max_results
  THEN Return(GOOGLE, r)
  ELSE /\ start_index' = start_index + 1
       /\ pc' = "g_page"
       /\ results' = r
       /\ UNCHANGED << queries_made, res, attempt >>

\* what follows the retry loop of a page, lines 283-285, r being results
GAfterPage(r) ==
  IF Len(r) >= max_results
  THEN Return(GOOGLE, r)
  ELSE /\ start_index' = start_index + per_page
       /\ pc' = "g_page"
       /\ results' = r
       /\ UNCHANGED << queries_made, res, attempt >>

\* the retry decision after HTTP 429/503 or a network error
GRetry ==
  LET delays == _delays(GOOGLE)
      idx == Min(attempt - 1, Len(delays) - 1)
  IN IF idx >= 0 /\ idx < Len(delays)
     THEN /\ ev' = << << "backoff", delays[idx + 1] >> >>
          /\ pc' = "g_try"
          /\ UNCHANGED << queries_made, res, results, start_index, attempt, failed >>
     ELSE /\ failed' = TRUE
          /\ GAfterPage(results)
          /\ UNCHANGED ev

\* GoogleCSEProvider.query: the answer of a page request is handled
GHandle ==
  /\ pc = "g_inflight"
  /\ resp' = NoResponse
  /\ IF resp.kind = "http" /\ resp.code = 200
     THEN /\ GAfterPage(results \o Links(resp.items))
          /\ UNCHANGED << ev, failed >>
     ELSE IF (resp.kind = "http" /\ resp.code \in RetryableStatus)
               \/ resp.kind \in RetryableErrors
     THEN GRetry
     ELSE /\ failed' = TRUE
          /\ GAfterPage(results)
          /\ UNCHANGED ev
  /\ UNCHANGED << cfgvars, mainvars, calls >>

\* DuckDuckGoProvider.query: one pass over ddgs.text() is started
DIssue ==
  /\ pc = "d_try"
  /\ attempt' = NextAttempt(attempt)
  /\ resp' \in DdgOutcomes
  /\ ev' = << >>
  /\ pc' = "d_inflight"
  /\ UNCHANGED << cfgvars, mainvars, queries_made, results, start_index, res, failed,
                  calls >>

\* the retry decision of the except branch, r being results
DRetry(r) ==
  LET delays == _delays(DDG)
  IN IF attempt <= Len(delays)
     THEN /\ ev' = << << "backoff", delays[attempt] >> >>
          /\ pc' = "d_try"
          /\ results' = r
          /\ UNCHANGED << queries_made, res, start_index, attempt, failed >>
     ELSE /\ failed' = TRUE
          /\ Return(DDG, r)
          /\ UNCHANGED ev

\* DuckDuckGoProvider.query: the pass ends, normally or with an exception
DHandle ==
  /\ pc = "d_inflight"
  /\ resp' = NoResponse
  /\ IF resp.kind = "ok"
     THEN /\ Return(DDG, results \o Links(resp.items))
          /\ UNCHANGED << ev, failed >>
     ELSE DRetry(results \o Links(resp.items))
  /\ UNCHANGED << cfgvars, mainvars, calls >>

(***************************************************************************)
(* Orchestrator                                                             *)
(***************************************************************************)

\* the next (keyword, provider) pair of the nested loops, or the end
Advance ==
  IF pidx < Len(providers)
  THEN pidx' = pidx + 1 /\ UNCHANGED kw /\ pc' = "loop"
  ELSE IF kw < NumKeywords
  THEN pidx' = 1 /\ kw' = kw + 1 /\ pc' = "loop"
  ELSE UNCHANGED << kw, pidx >> /\ pc' = "write"

\* main: a provider whose quota is reached is skipped
MainSkip ==
  /\ pc = "loop"
  /\ calls = 0
  /\ ~can_continue(Cur)
  /\ Advance
  /\ UNCHANGED << cfgvars, queries_made, provider_usage, all_domains, output,
                  exit_code, results, start_index, attempt, resp, res, ev, failed,
                  calls >>

\* main: prov.query(kw, max_results) is called
MainQuery ==
  /\ pc = "loop"
  /\ calls = 0
  /\ can_continue(Cur)
  /\ QueryEntry(Cur)
  /\ failed' = FALSE
  /\ UNCHANGED << cfgvars, mainvars, resp, calls >>

\* the merge with every returned link counted as a domain
MainMerge_CountsLinks ==
  /\ pc = "returned"
  /\ calls = 0
  /\ LET nd == unique_sorted(res)
     IN /\ all_domains' = all_domains \cup Range(nd)
        /\ provider_usage' =
             [provider_usage EXCEPT ![Cur] =
                [queries_made |-> queries_made[Cur], domains |-> @.domains + Len(res)]]
  /\ Advance
  /\ failed' = FALSE
  /\ UNCHANGED << cfgvars, queries_made, output, exit_code, results, start_index,
                  attempt, resp, res, ev, calls >>

\* main: the result of the query is merged, lines 458-462
MainMerge ==
  /\ pc = "returned"
  /\ calls = 0
  /\ LET nd == unique_sorted(res)
     IN /\ all_domains' = all_domains \cup Range(nd)
        /\ provider_usage' =
             [provider_usage EXCEPT ![Cur] =
                [queries_made |-> queries_made[Cur], domains |-> @.domains + Len(nd)]]
  /\ Advance
  /\ failed' = FALSE
  /\ UNCHANGED << cfgvars, queries_made, output, exit_code, results, start_index,
                  attempt, resp, res, ev, calls >>

\* main: the sorted domain list is written, lines 464-468, and main returns
MainWrite ==
  /\ pc = "write"
  /\ output' = SortedSeq(all_domains)
  /\ pc' = "done"
  /\ exit_code' = ExitSuccess
  /\ UNCHANGED << cfgvars, kw, pidx, queries_made, provider_usage, all_domains,
                  results, start_index, attempt, resp, res, ev, failed, calls >>

QuerySteps == GPage \/ GIssue \/ GHandle \/ DIssue \/ DHandle

Next == MainSkip \/ MainQuery \/ MainMerge \/ MainWrite \/ QuerySteps

Spec == Init /\ [][Next]_vars

\* control leaves the return of a query: the step of MainMerge, told by the
\* positions alone
MergeStep == pc = "returned" /\ calls = 0 /\ pc' \in {"loop", "write"}

\* the control sequence keeps running while it has a step to take
FairSpec ==
  /\ Spec
  /\ WF_vars(MainSkip \/ MainQuery \/ MainWrite \/ QuerySteps)
  /\ WF_pc(MergeStep)

(***************************************************************************)
(* main() from the start of the process                                     *)
(***************************************************************************)

\* the state once the arguments are parsed
MainInit ==
  /\ providers = << >>
  /\ daily_quota_threshold = [p \in ProviderNames |-> 0]
  /\ retry_attempts = [p \in ProviderNames |-> 0]
  /\ has_credentials = FALSE
  /\ ddgs_available = FALSE
  /\ ddg_crawl_delay = NoDelay
  /\ ddg_allowed = FALSE
  /\ robots_fetches = 0
  /\ cred_warnings = 0
  /\ dry_run \in BOOLEAN
  /\ config = "unread"
  /\ out_check = "unchecked"
  /\ max_results \in MaxResultsChoices
  /\ pc = "start"
  /\ kw = 1
  /\ pidx = 1
  /\ queries_made = [p \in ProviderNames |-> 0]
  /\ provider_usage = [p \in ProviderNames |-> [queries_made |-> 0, domains |-> 0]]
  /\ all_domains = {}
  /\ output = << >>
  /\ exit_code = Running
  /\ results = << >>
  /\ start_index = 1
  /\ attempt = 0
  /\ resp = NoResponse
  /\ res = << >>
  /\ ev = << >>
  /\ failed = FALSE
  /\ calls = 0
  /\ NoHelperCall
  /\ NoPipelineRun

startvars == << max_results, dry_run, kw, pidx, queries_made, provider_usage,
                all_domains, output, results, start_index, attempt, resp, res, ev,
                failed, calls, helpervars, phasevars >>

\* load_config with its failure only logged
LoadConfig_NoAbort ==
  /\ pc = "start"
  /\ \E f \in ConfigFiles :
       /\ config' = load_config(f)
       /\ pc' = "construct"
       /\ UNCHANGED exit_code
  /\ UNCHANGED << providers, daily_quota_threshold, retry_attempts, has_credentials,
                  ddgs_available, ddg_crawl_delay, ddg_allowed, robots_fetches,
                  cred_warnings, out_check, startvars >>

\* main: load_config, lines 405-409
LoadConfig ==
  /\ pc = "start"
  /\ \E f \in ConfigFiles :
       /\ config' = load_config(f)
       /\ IF load_config(f) = "ok"
          THEN pc' = "construct" /\ UNCHANGED exit_code
          ELSE pc' = "exit" /\ exit_code' = ExitConfig
  /\ UNCHANGED << providers, daily_quota_threshold, retry_attempts, has_credentials,
                  ddgs_available, ddg_crawl_delay, ddg_allowed, robots_fetches,
                  cred_warnings, out_check, startvars >>

\* main: the selected and enabled providers are constructed, lines 411-422;
\* DuckDuckGoProvider.__init__ fetches robots.txt, GoogleCSEProvider.__init__
\* reads the credentials and warns when one is missing.  The configs explored
\* give both providers the same daily_quota_threshold and retry_attempts.
ConstructProviders ==
  /\ pc = "construct"
  /\ \E robots \in {fetch_robots_and_delay(r) : r \in RobotsOutcomes},
        arg \in ProviderArgs, g_enabled \in BOOLEAN, d_enabled \in BOOLEAN,
        creds \in BOOLEAN, ddgs \in BOOLEAN,
        q \in QuotaChoices, n \in 0..MaxRetry :
       LET google == arg \in {"google", "all"} /\ g_enabled
           duck == arg \in {"duckduckgo", "all"} /\ d_enabled
           made == [p \in ProviderNames |-> IF p = GOOGLE THEN google ELSE duck]
       IN /\ providers' = (IF google THEN << GOOGLE >> ELSE << >>)
                            \o (IF duck THEN << DDG >> ELSE << >>)
          /\ daily_quota_threshold' = [p \in ProviderNames |-> IF made[p] THEN q ELSE 0]
          /\ retry_attempts' = [p \in ProviderNames |-> n]
          /\ has_credentials' = (google /\ creds)
          /\ cred_warnings' = (IF google /\ ~creds THEN 1 ELSE 0)
          /\ ddgs_available' = (duck /\ ddgs)
          /\ robots_fetches' = (IF duck THEN robots_fetches + 1 ELSE robots_fetches)
          /\ ddg_allowed' = (duck /\ robots[1])
          /\ ddg_crawl_delay' = (IF duck THEN robots[2] ELSE NoDelay)
          /\ IF ~google /\ ~duck
             THEN pc' = "exit" /\ exit_code' = ExitNoProviders
             ELSE pc' = "constructed" /\ UNCHANGED exit_code
  /\ UNCHANGED << config, out_check, startvars >>

\* main: the dry-run branch, lines 425-439
DryRun ==
  /\ pc = "constructed"
  /\ dry_run
  /\ pc' = "exit"
  /\ exit_code' = ExitSuccess
  /\ UNCHANGED << cfgvars, kw, pidx, queries_made, provider_usage, all_domains, output,
                  results, start_index, attempt, resp, res, ev, failed, calls >>

\* main: ensure_writable, lines 441-446; an exception other than
\* PermissionError is not caught
EnsureWritable ==
  /\ pc = "constructed"
  /\ ~dry_run
  /\ \E d \in OutputDirs :
       /\ out_check' = ensure_writable(d)
       /\ IF ensure_writable(d) = "ok"
          THEN pc' = "loop" /\ UNCHANGED exit_code
          ELSE IF ensure_writable(d) = "PermissionError"
          THEN pc' = "exit" /\ exit_code' = ExitNotWritable
          ELSE pc' = "exit" /\ exit_code' = ExitUncaught
  /\ UNCHANGED << providers, daily_quota_threshold, retry_attempts, has_credentials,
                  ddgs_available, ddg_crawl_delay, ddg_allowed, robots_fetches,
                  cred_warnings, config, startvars >>

MainNext ==
  LoadConfig \/ ConstructProviders \/ DryRun \/ EnsureWritable
    \/ MainSkip \/ MainQuery \/ MainMerge \/ MainWrite \/ QuerySteps

MainSpec == MainInit /\ [][MainNext]_vars

(***************************************************************************)
(* A client that calls query() directly, in any provider state              *)
(***************************************************************************)

ClientCall(i) ==
  /\ pc = "loop"
  /\ calls < MaxCalls
  /\ calls' = calls + 1
  /\ pidx' = i
  /\ QueryEntry(providers[i])
  /\ failed' = FALSE
  /\ UNCHANGED << cfgvars, kw, provider_usage, all_domains, output, exit_code, resp >>

ClientReturn ==
  /\ pc = "returned"
  /\ calls > 0
  /\ pc' = "loop"
  /\ failed' = FALSE
  /\ UNCHANGED << cfgvars, mainvars, queries_made, results, start_index, attempt, resp,
                  res, ev, calls >>

ProviderNext == (\E i \in 1..Len(providers) : ClientCall(i)) \/ ClientReturn \/ QuerySteps

ProviderSpec == Init /\ [][ProviderNext]_vars

(***************************************************************************)
(* The helper functions, applied to arguments of their own                  *)
(***************************************************************************)

\* what a run of main() has touched
runvars == << pc, mainvars, queries_made, results, start_index, attempt, resp, res, ev,
              failed, calls >>

\* main() is not running
NoDiscoverRun ==
  /\ providers = << >>
  /\ daily_quota_threshold = [p \in ProviderNames |-> 0]
  /\ retry_attempts = [p \in ProviderNames |-> 0]
  /\ has_credentials = FALSE
  /\ ddgs_available = FALSE
  /\ ddg_crawl_delay = NoDelay
  /\ ddg_allowed = FALSE
  /\ robots_fetches = 0
  /\ cred_warnings = 0
  /\ dry_run = FALSE
  /\ config = "unread"
  /\ out_check = "unchecked"
  /\ max_results = 0
  /\ pc = "start"
  /\ kw = 1
  /\ pidx = 1
  /\ queries_made = [p \in ProviderNames |-> 0]
  /\ provider_usage = [p \in ProviderNames |-> [queries_made |-> 0, domains |-> 0]]
  /\ all_domains = {}
  /\ output = << >>
  /\ exit_code = Running
  /\ results = << >>
  /\ start_index = 1
  /\ attempt = 0
  /\ resp = NoResponse
  /\ res = << >>
  /\ ev = << >>
  /\ failed = FALSE
  /\ calls = 0

\* arguments of backoff_delays, in milliseconds
BackoffBases == {0, 500, 3000, 10000}
BackoffMaxes == {1000, 8000}
MaxAttempts == 6
BackoffCalls ==
  [fn : {"backoff_delays"}, base : BackoffBases, max_s : BackoffMaxes,
   attempts : (-1)..MaxAttempts]

\* the upper-case spelling of a string
UpperChar(c) ==
  IF \E u \in Range(CharOrder) : u # c /\ LowerChar(u) = c
  THEN CHOOSE u \in Range(CharOrder) : u # c /\ LowerChar(u) = c
  ELSE c
Upper(s) == [i \in 1..Len(s) |-> UpperChar(s[i])]

\* "https://www.www.a.com"
UrlWwwWwwA ==
  << "h", "t", "t", "p", "s", ":", "/", "/", "w", "w", "w", ".", "w", "w", "w", ".",
     "a", ".", "c", "o", "m" >>
\* "http://a.com\n/b"
UrlLineBreak ==
  << "h", "t", "t", "p", ":", "/", "/", "a", ".", "c", "o", "m", "\n", "/", "b" >>

\* the lists unique_sorted is applied to
CollectUrls == {UrlA, UrlWwwA, UrlLocalhost, UrlB, UrlWwwWwwA, UrlLineBreak}
UrlLists ==
  {<< >>} \cup {<< u >> : u \in CollectUrls}
          \cup {<< u, v >> : u \in CollectUrls, v \in CollectUrls}
CollectCalls == [fn : {"unique_sorted"}, domains : UrlLists]

\* hosts is_valid_domain has to reject: loopback and any-address names, a
\* dotted quad, the empty host, hosts without an alphabetic top-level label of
\* two letters or more
LoopbackHosts ==
  { << "l", "o", "c", "a", "l", "h", "o", "s", "t" >>,
    << "1", "2", "7", ".", "0", ".", "0", ".", "1" >>,
    << "0", ".", "0", ".", "0", ".", "0" >>,
    << ":", ":", "1" >> }
OtherRejectedHosts ==
  { << "1", "0", ".", "0", ".", "0", ".", "1" >>,
    << >>,
    << "a" >>,
    << "a", ".", "b" >>,
    << "a", ".", "b", "1" >> }
RejectedHosts == LoopbackHosts \cup OtherRejectedHosts
\* hosts it accepts
PlainHosts == { << "a", ".", "c", "o", "m" >>, << "b", ".", "i", "o" >> }

\* the ways one host is spelled in a URL
Schemes ==
  { << >>, << "h", "t", "t", "p", ":", "/", "/" >>,
    << "H", "T", "T", "P", "S", ":", "/", "/" >> }
WwwPrefixes == { << >>, << "w", "w", "w", "." >> }
Ports == { << >>, << ":", "8", "0" >> }
Paths ==
  { << >>, << "/" >>, << "/", "b" >>,
    << "/", "a", "/", "/", "b", ".", "i", "o" >> }
UrlCalls ==
  [fn : {"normalize_domain"}, host : RejectedHosts \cup PlainHosts,
   scheme : Schemes, www : WwwPrefixes, upper : BOOLEAN, port : Ports, path : Paths]

\* the URL a call spells
UrlOf(c) ==
  c.scheme \o (IF c.upper THEN Upper(c.www \o c.host) ELSE c.www \o c.host)
           \o c.port \o c.path

\* values of GOOGLE_API_KEY and GOOGLE_CSE_ID
\* "A1-b_", "Cb2"
ApiKeys ==
  { << "A", "1", "-", "b", "_" >>, << "C", "b", "2" >> }
\* "01ab", "01:ab", "2b"
CxIds ==
  { << "0", "1", "a", "b" >>, << "0", "1", ":", "a", "b" >>, << "2", "b" >> }

\* a query-string value as the HTTP client writes it
QuoteChar(c) == IF c = ":" THEN << "%", "3", "A" >> ELSE << c >>
RECURSIVE Quote(_)
Quote(v) == IF v = << >> THEN << >> ELSE QuoteChar(Head(v)) \o Quote(Tail(v))

\* length of the text an exception message has before the request URL's query
PadLengths == {0, 100, 112}
MaxErrorLen == 120

\* str(e) of an exception that embeds the request URL
ErrorMessage(pad, key, cx) ==
  [i \in 1..pad |-> "/"] \o << "?", "k", "e", "y", "=" >> \o Quote(key)
    \o << "&", "c", "x", "=" >> \o Quote(cx) \o << "&", "q", "=", "a", "b" >>

\* the error_code field of the "unknown error" and "ddg error" records
LoggedError(e) == sanitize_error(Take(e, MaxErrorLen))

\* two runs that differ in the secret values only
SanitizeCalls ==
  [fn : {"sanitize_error"}, pad : PadLengths, key : ApiKeys, cx : CxIds,
   other_key : ApiKeys, other_cx : CxIds]

HelperCalls == BackoffCalls \cup CollectCalls \cup UrlCalls \cup SanitizeCalls

HelperInit ==
  /\ NoDiscoverRun
  /\ helper_call \in HelperCalls
  /\ helper_ret = << >>
  /\ helper_done = FALSE
  /\ NoPipelineRun

Apply_backoff_delays ==
  /\ ~helper_done
  /\ helper_call.fn = "backoff_delays"
  /\ helper_ret' = backoff_delays(helper_call.base, helper_call.max_s, helper_call.attempts)
  /\ helper_done' = TRUE
  /\ UNCHANGED << helper_call, configvars, runvars, phasevars >>

Apply_unique_sorted ==
  /\ ~helper_done
  /\ helper_call.fn = "unique_sorted"
  /\ helper_ret' = unique_sorted(helper_call.domains)
  /\ helper_done' = TRUE
  /\ UNCHANGED << helper_call, configvars, runvars, phasevars >>

\* is_valid_domain(normalize_domain(url)): the host and the verdict
Apply_normalize_domain ==
  /\ ~helper_done
  /\ helper_call.fn = "normalize_domain"
  /\ LET d == normalize_domain(UrlOf(helper_call))
     IN helper_ret' = << d, is_valid_domain(d) >>
  /\ helper_done' = TRUE
  /\ UNCHANGED << helper_call, configvars, runvars, phasevars >>

\* the record each of the two runs logs for the same exception
Apply_sanitize_error ==
  /\ ~helper_done
  /\ helper_call.fn = "sanitize_error"
  /\ helper_ret' =
       << LoggedError(ErrorMessage(helper_call.pad, helper_call.key, helper_call.cx)),
          LoggedError(ErrorMessage(helper_call.pad, helper_call.other_key,
                                   helper_call.other_cx)) >>
  /\ helper_done' = TRUE
  /\ UNCHANGED << helper_call, configvars, runvars, phasevars >>

HelperNext ==
  \/ Apply_backoff_delays
  \/ Apply_unique_sorted
  \/ Apply_normalize_domain
  \/ Apply_sanitize_error

HelperSpec == HelperInit /\ [][HelperNext]_vars

(***************************************************************************)
(* The pipeline state machine (src/state_machine.py)                        *)
(***************************************************************************)

MaxInterrupts == 2
MaxRuns == 3

\* state dicts a caller of run_next_phase passes
CallerStates ==
  [current_phase : {NoKey, 1, 2, 3}, status : {"not_started", "passed", "failed"},
   phase1 : {NoResult, "passed", "failed"}]

\* state.get("current_phase", 1)
PhaseOf(st) == IF st.current_phase = NoKey THEN 1 ELSE st.current_phase

\* what the state machine never touches
othervars == << configvars, runvars, helpervars >>

PhaseInit ==
  /\ NoDiscoverRun
  /\ NoHelperCall
  /\ NoPipelineRun

\* _load_state taking a file it cannot parse for a finished phase 1
_load_state_AssumeDone ==
  IF state_file.kind = "json" THEN state_file.content
  ELSE IF state_file.kind = "corrupt" THEN [DefaultState EXCEPT !.current_phase = 2]
  ELSE DefaultState

\* _load_state, called by main or by run_next_phase(None)
_load_state ==
  IF state_file.kind = "json" THEN state_file.content ELSE DefaultState

\* a call begins with the state loaded from state.json
CallLoaded ==
  /\ phase_pc \in {"start", "returned", "raised"}
  /\ runs < MaxRuns
  /\ runs' = runs + 1
  /\ state' = _load_state
  /\ entry_state' = _load_state
  /\ preflights' = 0
  /\ phase_pc' = "entry"
  /\ UNCHANGED << state_file, interrupts, hit, othervars >>

\* a call begins with a state dict of the caller's
CallWithState ==
  /\ phase_pc \in {"start", "returned", "raised"}
  /\ runs < MaxRuns
  /\ runs' = runs + 1
  /\ \E st \in CallerStates :
       /\ state' = st
       /\ entry_state' = st
  /\ preflights' = 0
  /\ phase_pc' = "entry"
  /\ UNCHANGED << state_file, interrupts, hit, othervars >>

\* run_next_phase, lines 63-71
Dispatch ==
  /\ phase_pc = "entry"
  /\ phase_pc' = IF PhaseOf(state) = 1 THEN "preflight" ELSE "save2_open"
  /\ UNCHANGED << state, state_file, entry_state, preflights, interrupts, hit, runs,
                  othervars >>

\* _handle_phase1 with the status always "passed"
HandlePhase1_AlwaysPassed ==
  /\ phase_pc = "preflight"
  /\ preflights' = preflights + 1
  /\ \E result \in {"passed", "failed", "raises"} :
       IF result = "raises"
       THEN /\ phase_pc' = "raised"
            /\ UNCHANGED state
       ELSE /\ state' = [state EXCEPT !.status = "passed", !.phase1 = result]
            /\ phase_pc' = "save1_open"
  /\ UNCHANGED << state_file, entry_state, interrupts, hit, runs, othervars >>

\* _handle_phase1, lines 50-52: run_preflight returns a result or raises
HandlePhase1 ==
  /\ phase_pc = "preflight"
  /\ preflights' = preflights + 1
  /\ \E result \in {"passed", "failed", "raises"} :
       IF result = "raises"
       THEN /\ phase_pc' = "raised"
            /\ UNCHANGED state
       ELSE /\ state' = [state EXCEPT !.status = result, !.phase1 = result]
            /\ phase_pc' = "save1_open"
  /\ UNCHANGED << state_file, entry_state, interrupts, hit, runs, othervars >>

\* _save_state, line 44: open(..., "w") empties the file
SaveOpen ==
  /\ phase_pc \in {"save1_open", "save2_open"}
  /\ state_file' = CorruptFile
  /\ phase_pc' = IF phase_pc = "save1_open" THEN "save1_dump" ELSE "save2_dump"
  /\ UNCHANGED << state, entry_state, preflights, interrupts, hit, runs, othervars >>

\* _save_state, line 45: json.dump and the close of the file
SaveDump ==
  /\ phase_pc \in {"save1_dump", "save2_dump"}
  /\ state_file' = JsonFile(state)
  /\ phase_pc' = IF phase_pc = "save1_dump" THEN "set_phase" ELSE "returned"
  /\ UNCHANGED << state, entry_state, preflights, interrupts, hit, runs, othervars >>

\* run_next_phase, line 68
SetPhase ==
  /\ phase_pc = "set_phase"
  /\ state' = [state EXCEPT !.current_phase = 2]
  /\ phase_pc' = "save2_open"
  /\ UNCHANGED << state_file, entry_state, preflights, interrupts, hit, runs, othervars >>

InCall ==
  phase_pc \in {"entry", "preflight", "save1_open", "save1_dump", "set_phase",
                "save2_open", "save2_dump"}

\* the process is killed inside a call: the dict is lost, state.json stays as
\* it is at that moment
Interrupt ==
  /\ InCall
  /\ interrupts < MaxInterrupts
  /\ interrupts' = interrupts + 1
  /\ hit' = phase_pc
  /\ phase_pc' = "start"
  /\ state' = DefaultState
  /\ entry_state' = DefaultState
  /\ preflights' = 0
  /\ UNCHANGED << state_file, runs, othervars >>

PhaseSteps == Dispatch \/ HandlePhase1 \/ SaveOpen \/ SaveDump \/ SetPhase

\* calls of run_next_phase by any caller
PhaseNext == CallLoaded \/ CallWithState \/ PhaseSteps

PhaseSpec == PhaseInit /\ [][PhaseNext]_vars

\* main() run, interrupted and run again
ResumeNext == CallLoaded \/ PhaseSteps \/ Interrupt

ResumeSpec == PhaseInit /\ [][ResumeNext]_vars

(***************************************************************************)
(* Properties                                                               *)
(***************************************************************************)

InGoogleRetryLoop == pc \in {"g_try", "g_inflight"}
InQuery == pc \in {"g_page", "g_try", "g_inflight", "d_try", "d_inflight"}
Waits(e) == {i \in 1..Len(e) : e[i][1] = "wait"}
Backoffs(e) == {i \in 1..Len(e) : e[i][1] = "backoff"}
\* the i-th element (1-indexed) of the documented delay sequence
ExpectedDelay(i) == Min(backoff_max_seconds, backoff_base_seconds * 2 ^ (i - 1))
QuotaReached(p) == queries_made[p] >= daily_quota_threshold[p]

\* C1: the retry loop of a GoogleCSE page makes at most retry_attempts HTTP
\* attempts (one when retry_attempts is below 1), also when every response
\* is retryable.
C1_GoogleAttemptsBounded ==
  InGoogleRetryLoop => attempt <= Max(1, retry_attempts[GOOGLE])

\* C2 (as claimed): every call of query that returns has increased the
\* provider's queries_made by exactly 1, the quota-exhausted call included.
C2_EveryCallCounts ==
  [][pc # "returned" /\ pc' = "returned" =>
       queries_made' = [queries_made EXCEPT ![providers[pidx']] = @ + 1]]_vars

\* C2 (amended): a call that returns has increased queries_made of its
\* provider by exactly 1 when the quota was not reached at the call and by 0
\* when it was; the quota stays unreached while the call runs, and
\* queries_made changes at no other step.
C2_CallCountsUnlessQuotaReached ==
  [][/\ pc # "returned" /\ pc' = "returned" =>
          queries_made' =
            [queries_made EXCEPT ![providers[pidx']] =
               IF QuotaReached(providers[pidx']) THEN @ ELSE @ + 1]
     /\ ~(pc # "returned" /\ pc' = "returned") => queries_made' = queries_made
     /\ InQuery' => ~QuotaReached(Cur)']_vars

\* C2 witness: a second direct call returned on a provider whose single allowed query
\* had been counted
C2_Witness ==
  /\ pc = "returned"
  /\ Len(providers) = 1
  /\ calls = 2
  /\ daily_quota_threshold[Cur] = 1
  /\ queries_made[Cur] = 1
  /\ res = << >>

Processed(k, i) == pc \in {"write", "done"} \/ kw > k \/ (kw = k /\ pidx > i)

\* C3: every (keyword, provider) pair is eventually processed and the run
\* eventually writes its output, whatever the responses are.
C3_RunCompletes ==
  <>(/\ pc = "done"
     /\ \A k \in 1..NumKeywords : \A i \in 1..Len(providers) : Processed(k, i))

\* C4 (as claimed): every request attempt, retried ones included, is preceded
\* by exactly one rate-limiter wait since the previous attempt.
C4_WaitBeforeEveryAttempt ==
  pc \in {"g_try", "d_try"} => Cardinality(Waits(ev)) = 1

\* C4 (amended): the first attempt of a GoogleCSE page and the first attempt
\* of a DuckDuckGo search are preceded by exactly one rate-limiter wait and
\* no backoff sleep; a retried attempt is preceded by one backoff sleep and
\* no rate-limiter wait.
C4_WaitBeforeFirstAttempt ==
  pc \in {"g_try", "d_try"} =>
    IF attempt = 0
    THEN Cardinality(Waits(ev)) = 1 /\ ev[1][1] = "wait" /\ Backoffs(ev) = {}
    ELSE Waits(ev) = {} /\ Len(ev) = 1 /\ ev[1][1] = "backoff"

\* C4 witness: a second retry of a GoogleCSE page is about to be sent
C4_Witness == pc = "g_try" /\ attempt = 2 /\ Len(ev) = 1

\* C5: a call of query on a provider with queries_made >= daily_quota_threshold
\* returns an empty list at once, with no request, no sleep and no count, and
\* only such a call does; a provider with threshold 0 has reached its quota
\* from construction on.
C5_QuotaGate ==
  [][/\ (pc = "loop" /\ pc' # "loop" /\ calls' # calls) =>
          LET p == providers[pidx']
          IN IF QuotaReached(p)
             THEN /\ pc' = "returned"
                  /\ res' = << >>
                  /\ ev' = << >>
                  /\ queries_made' = queries_made
             ELSE pc' # "returned" \/ queries_made'[p] = queries_made[p] + 1
     /\ \A p \in ProviderNames :
          daily_quota_threshold[p] = 0 => queries_made[p] = 0 /\ ~can_continue(p)]_vars

\* C5 witness: a direct call on a provider constructed with threshold 0 has returned
C5_Witness ==
  /\ pc = "returned"
  /\ calls >= 1
  /\ daily_quota_threshold[Cur] = 0
  /\ queries_made[Cur] = 0
  /\ res = << >>

C7_GoogleErrorGivesNoResults ==
  (pc = "returned" /\ Cur = GOOGLE /\ failed) => res = << >>

\* C8: a DuckDuckGo query returns the URLs of its successful attempt only,
\* and nothing when its last attempt raised.
C8_DdgFailedAttemptsDiscarded ==
  [][(pc = "d_inflight" /\ pc' = "returned") =>
       IF resp.kind = "ok" THEN res' = Take(Links(resp.items), max_results)
       ELSE res' = << >>]_vars

\* C9: a DuckDuckGo search is attempted at most max(1, retry_attempts) times;
\* after the i-th failed attempt the provider sleeps the i-th delay and
\* retries when that delay exists and stops otherwise, for every exception.
C9_DdgRetryBudget ==
  [][/\ pc' \in {"d_try", "d_inflight"} => attempt' <= Max(1, retry_attempts[DDG])
     /\ (pc = "d_inflight" /\ resp.kind # "ok") =>
          IF attempt <= Max(0, retry_attempts[DDG] - 1)
          THEN /\ pc' = "d_try"
               /\ ev' = << << "backoff", ExpectedDelay(attempt) >> >>
               /\ queries_made' = queries_made
          ELSE pc' = "returned" /\ ev' = << >>]_vars

\* C9 witness: the first attempt of a search failed and the retry waits its backoff
C9_Witness ==
  /\ pc = "d_try"
  /\ attempt = 1
  /\ ev = << << "backoff", backoff_base_seconds >> >>

ClaimedRetryable(r) ==
  \/ r.kind = "http" /\ r.code \in {429, 503}
  \/ r.kind \in {"timeout", "connection_error"}

\* C10: a GoogleCSE page request is retried only after HTTP 429, HTTP 503, a
\* timeout or a connection error; after any other answer the page gets no
\* further attempt and no backoff sleep.
C10_GoogleRetriesOnlyTransient ==
  [][(pc = "g_inflight" /\ ~ClaimedRetryable(resp)) =>
       /\ ev' = << >>
       /\ \/ pc' = "returned"
          \/ pc' = "g_page" /\ start_index' = start_index + per_page]_vars

\* C10 witness: a page ended in a terminal error and the query moved on to the
\* next page
\* (with two allowed attempts the retry budget of this loop never runs out)
C10_Witness ==
  /\ pc = "g_page"
  /\ failed
  /\ start_index = 1 + per_page
  /\ retry_attempts[GOOGLE] = 2

\* C11: a GoogleCSE query requests its pages at the start offsets 1, 11, 21,
\* ... in increasing order, each asking for min(10, max_results - results so
\* far) items; no page is requested once max_results results are held or with
\* an offset above 91, so a query requests at most 10 pages.
C11_GooglePagination ==
  [][/\ pc' \in {"g_try", "g_inflight"} =>
          /\ params'.start \in {1, 11, 21, 31, 41, 51, 61, 71, 81, 91}
          /\ Len(results') < max_results
          /\ params'.num = Min(10, max_results - Len(results'))
          /\ params'.num >= 1
     /\ (pc \notin {"g_page", "g_try", "g_inflight"} /\ pc' = "g_page") =>
          start_index' = 1
     /\ (pc \in {"g_try", "g_inflight"} /\ pc' = "g_page") =>
          start_index' = start_index + 10
     /\ (pc \in {"g_page", "g_try", "g_inflight"} /\ pc' \in {"g_try", "g_inflight"}) =>
          start_index' = start_index /\ results' = results]_vars

\* C11 witness: the tenth page of a query is about to be requested, for the one
\* result still missing
C11_Witness ==
  /\ pc = "g_try"
  /\ start_index = 91
  /\ max_results = 3
  /\ Len(results) = 2
  /\ params.num = 1

IsPrefix(a, b) == Len(a) <= Len(b) /\ SubSeq(b, 1, Len(a)) = a

\* the URLs the backend has answered the running query with, in order
Received ==
  results \o (IF pc \in {"g_inflight", "d_inflight"} THEN Links(resp.items) ELSE << >>)

\* C12: for both providers and every max_results >= 0 the list returned by
\* query holds at most max_results URLs, in the order in which the backend
\* answered them, however many items a page or a search holds.
C12_ResultBoundedAndOrdered ==
  [][/\ (InQuery /\ pc' = "returned") =>
          /\ Len(res') <= max_results
          /\ IsPrefix(res', Received)
     /\ (pc = "loop" /\ pc' = "returned") => res' = << >>
     /\ (pc = "loop" /\ InQuery') => Received' = << >>
     /\ (InQuery /\ InQuery') => IsPrefix(Received, Received')]_vars

\* C12 witness: one result was asked for, the page held three URLs and the first of
\* them was returned
C12_Witness ==
  /\ pc = "returned"
  /\ Cur = GOOGLE
  /\ max_results = 1
  /\ res = << UrlLocalhost >>

\* a call of query on the GoogleCSE provider that lacks a credential
NoCredentialCall ==
  /\ pc = "loop"
  /\ pc' # "loop"
  /\ providers[pidx'] = GOOGLE
  /\ ~has_credentials

\* C13 (as claimed): every call of query on a GoogleCSE provider constructed
\* without API key or search-engine id returns an empty list, adds exactly 1
\* to queries_made and sends no request and waits for no rate limiter; the
\* warning was logged once at construction and is not logged by query.
C13_NoCredentialCallAlwaysCounts ==
  [][/\ NoCredentialCall =>
          /\ pc' = "returned"
          /\ res' = << >>
          /\ ev' = << >>
          /\ queries_made' = [queries_made EXCEPT ![GOOGLE] = @ + 1]
          /\ cred_warnings' = cred_warnings
     /\ (Enabled(GOOGLE) /\ ~has_credentials) =>
          /\ cred_warnings = 1
          /\ pc \notin {"g_page", "g_try", "g_inflight"}]_vars

\* C13 (amended): such a call returns an empty list at once, with no request
\* and no rate-limiter wait, and adds exactly 1 to queries_made when the
\* quota was not reached at the call and nothing when it was; the warning was
\* logged once at construction and is not logged by query.
C13_NoCredentialCallCountsUnlessQuotaReached ==
  [][/\ NoCredentialCall =>
          /\ pc' = "returned"
          /\ res' = << >>
          /\ ev' = << >>
          /\ queries_made' =
               [queries_made EXCEPT ![GOOGLE] = IF QuotaReached(GOOGLE) THEN @ ELSE @ + 1]
          /\ cred_warnings' = cred_warnings
     /\ (Enabled(GOOGLE) /\ ~has_credentials) =>
          /\ cred_warnings = 1
          /\ pc \notin {"g_page", "g_try", "g_inflight"}]_vars

\* C13 witness: two direct calls on the provider without credentials returned
\* empty and were both counted
C13_Witness ==
  /\ pc = "returned"
  /\ Cur = GOOGLE
  /\ ~has_credentials
  /\ calls = 2
  /\ queries_made[GOOGLE] = 2
  /\ res = << >>
  /\ cred_warnings = 1

\* the (keyword, provider) pairs of provider p the loop of main has finished
\* or is at work on
PairsBegun(p) ==
  LET at == {i \in 1..Len(providers) : providers[i] = p}
      \* keywords for which the provider at position i was reached
      reached(i) ==
        IF pc \in {"write", "done"} THEN NumKeywords
        ELSE (kw - 1)
               + (IF pidx > i \/ (pidx = i /\ (InQuery \/ pc = "returned"))
                  THEN 1 ELSE 0)
  IN IF at = {} THEN 0 ELSE reached(CHOOSE i \in at : TRUE)

QueriesWithinBudget ==
  \A p \in ProviderNames :
    /\ queries_made[p] <= PairsBegun(p)
    /\ daily_quota_threshold[p] >= 0 => queries_made[p] <= daily_quota_threshold[p]

\* C14: during a run queries_made of a provider never decreases, never
\* exceeds the number of (keyword, provider) pairs the orchestrator has taken
\* up for that provider so far, and never exceeds daily_quota_threshold.
C14_QueriesMadeBounded ==
  /\ QueriesWithinBudget
  /\ [][/\ QueriesWithinBudget'
        /\ \A p \in ProviderNames : queries_made'[p] >= queries_made[p]]_vars

\* C14 witness: a run ended with the quota of one query used up by the first
\* keyword and the second keyword skipped
C14_Witness ==
  /\ pc = "done"
  /\ daily_quota_threshold[GOOGLE] = 1
  /\ queries_made[GOOGLE] = 1
  /\ PairsBegun(GOOGLE) = 2

\* C15: a dry-run invocation sends no network request between the start of
\* the process and its exit, for every provider selection: no GET of
\* robots.txt and no search request.
C15_DryRunNoNetwork ==
  dry_run => robots_fetches = 0 /\ pc \notin {"g_inflight", "d_inflight"}

\* C16: main ends with pairwise distinct outcomes, tested in this order: a
\* config that fails to load or validate exits 2, no provider selected and
\* enabled exits 3, an output path that is not writable exits 4, and a
\* completed run exits 0.
C16_ExitCodes ==
  pc \in {"exit", "done"} =>
    /\ exit_code = 2 <=> config # "ok"
    /\ exit_code = 3 <=> (config = "ok" /\ providers = << >>)
    /\ exit_code = 4 <=>
         (config = "ok" /\ providers # << >> /\ out_check \notin {"unchecked", "ok"})
    /\ pc = "done" => exit_code = 0
    /\ exit_code = 0 => (pc = "done" \/ dry_run)

\* C17: a dry run exits 0 only when the config is valid and the check of
\* every selected provider passed: API key and search-engine id present for
\* GoogleCSE, search library importable for DuckDuckGo.
C17_DryRunExitReflectsValidation ==
  (pc = "exit" /\ dry_run /\ exit_code = 0) =>
    /\ config = "ok"
    /\ Enabled(GOOGLE) => has_credentials
    /\ Enabled(DDG) => ddgs_available

QueryPositions == {"g_page", "g_try", "g_inflight", "d_try", "d_inflight", "returned"}
FatalConfig == config \notin {"unread", "ok"}
FatalOutput == out_check \notin {"unchecked", "ok"}

\* C18: a run that ends with a fatal config error or with an output path
\* that is not writable has called query on no provider and left every
\* queries_made at 0; a config error also comes before any network I/O: no
\* provider is constructed and robots.txt is not fetched.
C18_FatalErrorsBeforeQueries ==
  [][/\ pc' \in QueryPositions => (~FatalConfig' /\ ~FatalOutput')
     /\ (FatalConfig \/ FatalOutput) => FALSE
     /\ (FatalConfig' \/ FatalOutput') =>
          /\ pc' = "exit"
          /\ pc \notin QueryPositions
          /\ \A p \in ProviderNames : queries_made'[p] = 0
     /\ FatalConfig' =>
          /\ exit_code' = 2
          /\ providers' = << >>
          /\ robots_fetches' = 0
          /\ cred_warnings' = 0]_vars

\* C18 witness: the run ended on the output path after the providers were built
\* and robots.txt fetched, with no query made
C18_Witness ==
  /\ pc = "exit"
  /\ exit_code = 4
  /\ out_check = "PermissionError"
  /\ providers = << GOOGLE, DDG >>
  /\ robots_fetches = 1
  /\ \A p \in ProviderNames : queries_made[p] = 0

\* C19: a DuckDuckGo query that sends a search request has, before its first
\* request, waited for the rate limiter and then slept the crawl delay, in
\* that order; the crawl-delay sleep happens when the delay fetched at
\* construction is present and positive and not when it is absent or not
\* positive.
C19_DdgWaitThenCrawlDelay ==
  [][/\ (pc' = "d_inflight" /\ attempt' = 1) =>
          /\ pc = "d_try"
          /\ attempt = 0
          /\ ev = IF ddg_crawl_delay = NoDelay \/ ddg_crawl_delay <= 0
                  THEN << << "wait", 0 >> >>
                  ELSE << << "wait", 0 >>, << "crawl", ddg_crawl_delay >> >>
     /\ (pc' = "d_try" /\ attempt' = 0) => pc \notin {"d_try", "d_inflight"}
     /\ (pc \notin {"d_try", "d_inflight"} /\ pc' \in {"d_try", "d_inflight"}) =>
          (pc' = "d_try" /\ attempt' = 0)]_vars

\* C19 witness: the first request of a search is in flight on a provider
\* whose robots.txt gave a crawl delay of one second
C19_Witness ==
  /\ pc = "d_inflight"
  /\ attempt = 1
  /\ ddg_crawl_delay = 1000
  /\ robots_fetches = 1

\* a line that reads "Crawl-delay: <decimal number>" (hyphen optional, any
\* case, blanks around the colon)
IsCrawlDelayLine(line) ==
  LET l == Lower(Strip(line))
  IN \E w \in CrawlDelayWords :
       /\ StartsWith(l, w)
       /\ LET rest == Strip(Drop(l, Len(w)))
          IN /\ rest # << >>
             /\ rest[1] = ":"
             /\ IsDecimal(Strip(Drop(rest, 1)))

\* the fetch of robots.txt raised, was answered with a status other than 200,
\* or gave a text without a parsable Crawl-delay
NoUsableDelay(r) ==
  \/ r.kind # "http"
  \/ r.code # 200
  \/ \A i \in 1..Len(SplitLines(r.text)) : ~IsCrawlDelayLine(SplitLines(r.text)[i])

\* C20: robots.txt of the DuckDuckGo host is fetched exactly once per
\* provider instance, at construction, and never during queries; when the
\* fetch raises, is answered with a status other than 200 or holds no
\* parsable Crawl-delay, the provider is marked allowed with no crawl delay,
\* and its queries are made.  (What fetch_robots_and_delay gives for an
\* answer does not depend on the state: it is evaluated at the first step.)
C20_RobotsFetchedOnceFailOpen ==
  [][/\ pc = "start" =>
          \A r \in RobotsOutcomes :
            NoUsableDelay(r) => fetch_robots_and_delay(r) = << TRUE, NoDelay >>
     /\ robots_fetches' = (IF Enabled(DDG)' THEN 1 ELSE 0)
     /\ robots_fetches' # robots_fetches => (pc = "construct" /\ Enabled(DDG)')
     /\ Enabled(DDG)' => ddg_allowed'
     /\ (pc = "loop" /\ Cur = DDG /\ can_continue(DDG) /\ ddgs_available) =>
          pc' = "d_try"]_vars

\* C20 witness: a search is in flight on a provider whose single fetch of
\* robots.txt gave what a failed fetch gives: allowed, no crawl delay
C20_Witness ==
  /\ pc = "d_inflight"
  /\ robots_fetches = 1
  /\ \E r \in RobotsOutcomes :
       /\ r.kind = "timeout"
       /\ << ddg_allowed, ddg_crawl_delay >> = fetch_robots_and_delay(r)

\* a finished call of backoff_delays
BackoffReturned == helper_done /\ helper_call.fn = "backoff_delays"

\* the delays follow the doubling recurrence with the ceiling max_s
BackoffRecurrence ==
  LET d == helper_ret
  IN /\ Len(d) = Max(0, helper_call.attempts - 1)
     /\ Len(d) >= 1 => d[1] = helper_call.base
     /\ \A k \in 2..Len(d) : d[k] = Min(helper_call.max_s, 2 * d[k - 1])
     /\ (helper_call.base = 500 /\ helper_call.max_s = 8000 /\ helper_call.attempts = 5)
          => d = << 500, 1000, 2000, 4000 >>

\* C21 as stated: backoff_delays(base, max, attempts) returns max(0, attempts - 1)
\* delays, the first is base, each later one is min(max, 2 * previous), the
\* example (0.5, 8.0, 5) gives [0.5, 1.0, 2.0, 4.0], and every element is at
\* most max.
C21_EveryDelayCapped ==
  BackoffReturned =>
    /\ BackoffRecurrence
    /\ \A k \in 1..Len(helper_ret) : helper_ret[k] <= helper_call.max_s

\* C21: backoff_delays(base, max, attempts) returns max(0, attempts - 1) delays,
\* the first is base, each later one is min(max, 2 * previous), the example
\* (0.5, 8.0, 5) gives [0.5, 1.0, 2.0, 4.0]; every element after the first is at
\* most max, and the first is base itself, which is at most max only when base is.
C21_DelaysCappedAfterFirst ==
  BackoffReturned =>
    /\ BackoffRecurrence
    /\ \A k \in 2..Len(helper_ret) : helper_ret[k] <= helper_call.max_s
    /\ \A k \in 1..Len(helper_ret) :
         helper_ret[k] <= Max(helper_call.base, helper_call.max_s)

C21_Witness ==
  /\ BackoffReturned
  /\ helper_call.base = 500 /\ helper_call.max_s = 8000 /\ helper_call.attempts = 5
  /\ helper_ret = << 500, 1000, 2000, 4000 >>
\* C22: unique_sorted is idempotent: applied to its own output it returns the
\* same list, so every host it emits normalizes to itself and stays valid.
C22_UniqueSortedIdempotent ==
  (helper_done /\ helper_call.fn = "unique_sorted") =>
    /\ unique_sorted(helper_ret) = helper_ret
    /\ \A i \in 1..Len(helper_ret) :
         /\ normalize_domain(helper_ret[i]) = helper_ret[i]
         /\ is_valid_domain(helper_ret[i])

\* C23: a URL whose host is a loopback or any-address name, a dotted quad, empty
\* or without an alphabetic top-level label of two letters or more is rejected by
\* is_valid_domain(normalize_domain(url)) whatever its scheme, port, path, letter
\* case or leading "www."; URLs that differ only in those normalize to the same
\* host, the one the bare lower-case host normalizes to.
C23_UnsafeHostsRejected ==
  (helper_done /\ helper_call.fn = "normalize_domain") =>
    /\ helper_call.host \in RejectedHosts => ~helper_ret[2]
    /\ helper_ret[1] = normalize_domain(helper_call.host)
\* sub occurs in s
Contains(s, sub) == Find(s, sub) > 0

\* C24: no log record contains the API key or the search-engine id: two runs
\* that differ only in the secret values and see the same exception, whose
\* message embeds the request URL with its key= and cx= parameters, emit
\* identical records.
C24_LogsIndependentOfSecrets ==
  (helper_done /\ helper_call.fn = "sanitize_error") =>
    /\ helper_ret[1] = helper_ret[2]
    /\ ~Contains(helper_ret[1], Quote(helper_call.key))
    /\ ~Contains(helper_ret[1], Quote(helper_call.cx))
\* the domains values of the summary, added up
TotalDomains == provider_usage[GOOGLE].domains + provider_usage[DDG].domains

\* C25: when a run completes, each enabled provider's provider_usage entry has
\* queries_made equal to the provider's counter and to min(number of keywords,
\* daily_quota_threshold); its domains value starts at 0 and grows, at the merge
\* of each of the provider's queries and at no other step, by the number of
\* distinct valid normalized domains of that query's result; so unique_domains,
\* the length of the output, is at most the sum of the domains values.
C25_SummaryMatchesCounters ==
  /\ \A p \in ProviderNames : provider_usage[p].domains = 0
  /\ [][ /\ MergeStep =>
             \A p \in ProviderNames :
               provider_usage'[p].domains =
                 provider_usage[p].domains
                   + (IF p = Cur THEN Cardinality(ValidDomains(res)) ELSE 0)
         /\ ~MergeStep =>
             \A p \in ProviderNames :
               provider_usage'[p].domains = provider_usage[p].domains
         /\ pc' = "done" =>
             /\ \A p \in ProviderNames : Enabled(p) =>
                  /\ provider_usage'[p].queries_made = queries_made'[p]
                  /\ queries_made'[p] = Min(NumKeywords, daily_quota_threshold[p])
             /\ Len(output') <= TotalDomains' ]_vars

\* a finished run in which a provider used a query for every keyword and the
\* same domain came back from more than one query
C25_Witness ==
  /\ pc = "done"
  /\ \E p \in ProviderNames :
       /\ Enabled(p)
       /\ provider_usage[p].queries_made = NumKeywords
       /\ provider_usage[p].domains >= 2
  /\ Len(output) < TotalDomains
\* C26: a call of run_next_phase on a state with current_phase = 1 executes the
\* preflight once, sets status to "passed" or "failed" as the preflight result
\* says, records the result as phase1 and sets current_phase to 2; on a state
\* with another current_phase it executes no phase and returns the state with
\* every field unchanged; and current_phase never decreases, neither inside a
\* call nor from one call to the next one made on the state it left.
C26_RunNextPhase ==
  [][ /\ phase_pc' = "returned" =>
           IF entry_state'.current_phase = 1
           THEN /\ preflights' = 1
                /\ state'.phase1 \in {"passed", "failed"}
                /\ state'.status = state'.phase1
                /\ state'.current_phase = 2
           ELSE entry_state'.current_phase # NoKey =>
                  /\ preflights' = 0
                  /\ state' = entry_state'
      /\ (phase_pc' # "entry" \/ state' = state) =>
           PhaseOf(state') >= PhaseOf(state) ]_vars

\* a second call returned: it found current_phase = 1 and the preflight failed
C26_Witness ==
  /\ phase_pc = "returned"
  /\ runs >= 2
  /\ entry_state.current_phase = 1
  /\ preflights = 1
  /\ state.status = "failed"
  /\ state.current_phase = 2

\* C27: main() run from no state.json, interrupted at any point and run again
\* from what _load_state reads: every run that returns ends with
\* current_phase = 2 and a recorded phase-1 result, state.json then equals the
\* returned state, and state.json never records current_phase = 2 without a
\* phase-1 result.
C27_ResumeAfterInterruption ==
  /\ phase_pc = "returned" =>
       /\ state.current_phase = 2
       /\ state.phase1 # NoResult
       /\ state_file = JsonFile(state)
  /\ (state_file.kind = "json" /\ state_file.content.current_phase = 2) =>
       state_file.content.phase1 # NoResult

\* a run returned after an interruption that struck during the second write
C27_Witness ==
  /\ phase_pc = "returned"
  /\ interrupts >= 1
  /\ hit = "save2_dump"
  /\ state.current_phase = 2
  /\ state_file = JsonFile(state)
====
